---- MODULE Spec2Model ----
(***************************************************************************)
(* Sliding-window ARQ transport of src/transport/part1.py (alternating bit *)
(* / go-back-N with retransmission on an ahead-of-expected ack) and        *)
(* src/transport/part2.py (go-back-N): checksum, SndTransport,             *)
(* RcvTransport, and the lossy, corrupting, order-preserving channel and   *)
(* one-shot timer they are driven by.                                      *)
(***************************************************************************)
EXTENDS Integers, Sequences, FiniteSets, TLC

VARIABLES
    variant,            \* 1: part1.py, 2: part2.py
    seqnum_limit,       \* SndTransport.seqnum_limit / RcvTransport.seqnum_limit
    window_size,        \* SndTransport.window_size
    last_ack_rec,       \* SndTransport.last_ack_rec
    next_frame_index,   \* SndTransport.next_frame_index
    unackPkt,           \* SndTransport.unackPkt
    last_frame_rec,     \* RcvTransport.last_frame_rec
    timer,              \* TRUE iff the sender's one-shot timer is pending
    chanSR,             \* packets in flight, sender -> receiver (FIFO)
    chanRS,             \* packets in flight, receiver -> sender (FIFO)
    crashed,            \* an uncaught exception ended the run
    op,                 \* the last event: a handler that ran, or "lose"
    inp,                \* the packet that handler was passed (recv), or NoPkt
    out,                \* packets that handler passed to to_layer3, in order
    up,                 \* payloads that handler passed to to_layer5, in order
    nsend,              \* number of send calls made by layer 5 so far
    nreject,            \* how many of them were rejected
    accepted,           \* payloads of the send calls that were accepted
    rejected,           \* payloads of the send calls that were rejected
    firstTx,            \* packets passed to to_layer3 by send itself
    delivered,          \* payloads RcvTransport passed to to_layer5, in order
    deliveredSeq,       \* their sequence numbers
    lossBudget,         \* packets the channel may still drop; -1: no limit
    corrupted,          \* packets the channel has corrupted
    undetected,         \* some corruption left the checksum test passing
    ckPkt,              \* checksum study: the packet under test
    ckPhase             \* checksum study: "off", "new", "stamped", "flipped"

sndVars == <<last_ack_rec, next_frame_index, unackPkt>>
rcvVars == <<last_frame_rec>>
appVars == <<nsend, nreject, accepted, rejected, firstTx>>
upVars == <<delivered, deliveredSeq>>
protoVars == <<sndVars, rcvVars, timer, chanSR, chanRS, crashed, op, inp, out, up,
               appVars, upVars, lossBudget, corrupted, undetected>>
confVars == <<variant, seqnum_limit, window_size>>
ckVars == <<ckPkt, ckPhase>>
vars == <<confVars, protoVars, ckVars>>

\* ------------------------------------------------------------------ bounds
MaxSends == 5       \* send calls layer 5 makes that are accepted
MaxRejects == 1     \* send calls layer 5 makes that are rejected
MaxChan == 2        \* packets in flight per direction
MaxCorrupt == 1     \* packets the channel corrupts

MSG_SIZE == 2       \* bytes per message (Msg.MSG_SIZE, 20 in the source)

\* (seqnum_limit, window_size) pairs the entities are constructed with; the
\* last one has seqnum_limit < 2 * window_size.
Configs == {<<2, 1>>, <<4, 2>>, <<3, 2>>}

\* ---------------------------------------------------------------- packets
\* class Pkt
Pkt(seqnum, acknum, checksum, payload) ==
    [seqnum |-> seqnum, acknum |-> acknum, checksum |-> checksum, payload |-> payload]

\* Stands for "no packet".
NoPkt == Pkt(0, 0, 0, <<>>)

\* The payload of the id-th message handed down by layer 5.
MsgData(id) == [i \in 1..MSG_SIZE |-> IF i = 1 THEN id ELSE 0]

\* Bitwise or of two naturals (Python's | on non-negative ints).
RECURSIVE BitOr(_, _)
BitOr(a, b) ==
    IF a = 0 THEN b
    ELSE IF b = 0 THEN a
    ELSE (IF a % 2 = 1 \/ b % 2 = 1 THEN 1 ELSE 0) + 2 * BitOr(a \div 2, b \div 2)

\* append_ints: (num1 << 8) | num2
append_ints(num1, num2) == BitOr(num1 * 256, num2)

\* if sum & 0xFFFF0000: sum &= 0xFFFF; sum += 1
FoldCarry(sum) ==
    IF (sum \div 65536) % 65536 # 0 THEN (sum % 65536) + 1 ELSE sum

\* count = len(pkt.payload)/2 is a float; `while index < count` with index
\* stepping by one from 0 runs for the indices 0 .. ceil(len/2) - 1.
PayloadCount(payload) == (Len(payload) + 1) \div 2

\* The while loop of calc_checksum; index is the 0-based Python index.
RECURSIVE PayloadLoop(_, _, _)
PayloadLoop(sum, payload, index) ==
    IF index < PayloadCount(payload)
    THEN PayloadLoop(FoldCarry(sum + payload[index + 1]), payload, index + 1)
    ELSE sum

\* calc_checksum: ~(sum & 0xFFFF) on a Python int is -(sum & 0xFFFF) - 1
calc_checksum(pkt) ==
    -(PayloadLoop(FoldCarry(append_ints(pkt.seqnum, pkt.acknum)), pkt.payload, 0) % 65536) - 1

\* ----------------------------------------------------------- SndTransport
\* A next_frame_index that is never wrapped.
inc_nfi_nowrap == next_frame_index + 1

\* inc_nfi: the value next_frame_index takes
inc_nfi ==
    IF next_frame_index < seqnum_limit - 1 THEN next_frame_index + 1 ELSE 0

\* A wrap test that is off by one.
next_lar_late ==
    IF last_ack_rec <= seqnum_limit - 1 THEN last_ack_rec + 1 ELSE 0

\* next_lar
next_lar ==
    IF last_ack_rec < seqnum_limit - 1 THEN last_ack_rec + 1 ELSE 0

\* A window test that admits one packet too many.
check_send_inclusive == Len(unackPkt) <= window_size

\* check_send
check_send == Len(unackPkt) < window_size

\* A check_rec that verifies the checksum alone and so takes a negative
\* acknowledgment for a positive one.
Snd_check_rec_checksum_only(pkt) == pkt.checksum = calc_checksum(pkt)

\* SndTransport.check_rec
Snd_check_rec(pkt) ==
    pkt.acknum = pkt.seqnum /\ pkt.checksum = calc_checksum(pkt)

\* A send that numbers the packet after advancing next_frame_index.
SendPkt_after_inc(data) ==
    LET pkt == Pkt(inc_nfi, inc_nfi, 0, data)
    IN  [pkt EXCEPT !.checksum = calc_checksum(pkt)]

\* The packet send builds from a message: Pkt(nfi, nfi, 0, data) and then
\* pkt.checksum = calc_checksum(pkt)
SendPkt(data) ==
    LET pkt == Pkt(next_frame_index, next_frame_index, 0, data)
    IN  [pkt EXCEPT !.checksum = calc_checksum(pkt)]

\* A retransmission that builds each packet anew from its payload.
RetxPkts_rebuilt == [i \in 1..Len(unackPkt) |-> SendPkt(unackPkt[i].payload)]

\* A retransmission of the oldest outstanding packet alone.
RetxPkts_oldest_only == SubSeq(unackPkt, 1, 1)

\* The packets the retransmission loop (`for packet in self.unackPkt`) passes
\* to to_layer3, in order.
RetxPkts == unackPkt

\* send, window not full: the packet is built, buffered, sent, the timer started
SendAccept(data) ==
    \E pkt \in {SendPkt(data)} :
        /\ nsend - nreject < MaxSends
        /\ Len(chanSR) < MaxChan
        /\ next_frame_index' = inc_nfi
        /\ unackPkt' = Append(unackPkt, pkt)
        /\ chanSR' = Append(chanSR, pkt)
        /\ timer' = TRUE
        /\ op' = "send"
        /\ out' = <<pkt>>
        /\ accepted' = Append(accepted, data)
        /\ firstTx' = firstTx \cup {pkt}
        /\ UNCHANGED <<nreject, rejected>>

\* A send that buffers the message although the window is full.
SendReject_queues(data) ==
    /\ nreject < MaxRejects
    /\ nreject' = nreject + 1
    /\ op' = "reject"
    /\ out' = <<>>
    /\ rejected' = rejected \cup {data}
    /\ unackPkt' = Append(unackPkt, SendPkt(data))
    /\ next_frame_index' = inc_nfi
    /\ UNCHANGED <<chanSR, timer, accepted, firstTx>>

\* send, window full: only the error message is printed
SendReject(data) ==
    /\ nreject < MaxRejects
    /\ nreject' = nreject + 1
    /\ op' = "reject"
    /\ out' = <<>>
    /\ rejected' = rejected \cup {data}
    /\ UNCHANGED <<next_frame_index, unackPkt, chanSR, timer, accepted, firstTx>>

\* send(message): the nsend+1-st call of layer 5
Send ==
    /\ ~crashed
    /\ \E data \in {MsgData(nsend + 1)} :
           IF check_send THEN SendAccept(data) ELSE SendReject(data)
    /\ nsend' = nsend + 1
    /\ up' = <<>>
    /\ inp' = NoPkt
    /\ UNCHANGED <<last_ack_rec, rcvVars, chanRS, crashed, upVars, lossBudget,
                   corrupted, undetected, confVars, ckVars>>

\* A recv that takes no notice of a packet failing check_rec.
SndRecvCase_nack_ignored(pkt) ==
    IF Snd_check_rec(pkt) /\ pkt.seqnum = next_lar THEN "pop"
    ELSE IF Snd_check_rec(pkt) /\ variant = 1 /\ pkt.seqnum > next_lar THEN "retx"
    ELSE "none"

\* What recv does with the arriving pkt, after stop_timer:
\*   "pop"  - valid and pkt.seqnum == next_lar()
\*   "retx" - retransmit everything outstanding
\*   "none" - nothing
SndRecvCase(pkt) ==
    IF Snd_check_rec(pkt)
    THEN IF pkt.seqnum = next_lar THEN "pop"
         ELSE IF variant = 1 /\ pkt.seqnum > next_lar THEN "retx"
         ELSE "none"
    ELSE "retx"

\* recv(pkt) of SndTransport.  self.unackPkt.pop(0) on an empty list raises
\* IndexError after last_ack_rec was assigned and before to_layer5.
SndHandle(pkt) ==
    \E case \in {SndRecvCase(pkt)} :
        LET emit == IF case = "retx" THEN RetxPkts ELSE <<>>
            fails == case = "pop" /\ unackPkt = <<>>
        IN  /\ Len(chanSR) + Len(emit) <= MaxChan
            /\ chanSR' = chanSR \o emit
            /\ out' = emit
            /\ op' = "srecv"
            /\ inp' = pkt
            /\ timer' = (case = "retx" /\ Len(unackPkt) > 0)
            /\ last_ack_rec' = IF case = "pop" THEN next_lar ELSE last_ack_rec
            /\ crashed' = fails
            /\ unackPkt' = IF case = "pop" /\ ~fails THEN Tail(unackPkt) ELSE unackPkt
            /\ up' = IF case = "pop" /\ ~fails THEN <<pkt.payload>> ELSE <<>>
            /\ UNCHANGED <<next_frame_index, rcvVars, appVars, upVars, lossBudget,
                           confVars, ckVars>>

\* timer_interrupt of SndTransport.  part1 calls retransmit(), which restarts
\* the timer only when something is outstanding; part2 restarts it
\* unconditionally.
TimerHandle ==
    /\ ~crashed
    /\ Len(chanSR) + Len(RetxPkts) <= MaxChan
    /\ chanSR' = chanSR \o RetxPkts
    /\ out' = RetxPkts
    /\ up' = <<>>
    /\ op' = "timer"
    /\ inp' = NoPkt
    /\ timer' = IF variant = 1 THEN Len(unackPkt) > 0 ELSE TRUE
    /\ UNCHANGED <<sndVars, rcvVars, chanRS, crashed, appVars, upVars, lossBudget,
                   corrupted, undetected, confVars, ckVars>>

\* The pending timer goes off.
TimerInterrupt ==
    /\ timer
    /\ TimerHandle

\* An expiry that raced with stop_timer: timer_interrupt is called although
\* no timer is pending.
StaleTimer ==
    /\ ~timer
    /\ TimerHandle

\* ----------------------------------------------------------- RcvTransport
\* A wrap test that is off by one.
next_frame_rec_late ==
    IF last_frame_rec <= seqnum_limit - 1 THEN last_frame_rec + 1 ELSE 0

\* next_frame_rec
next_frame_rec ==
    IF last_frame_rec < seqnum_limit - 1 THEN last_frame_rec + 1 ELSE 0

\* A receiver that does not verify the checksum.
Rcv_check_rec_skipped(packet) == TRUE

\* RcvTransport.check_rec
Rcv_check_rec(packet) == calc_checksum(packet) = packet.checksum

\* An ack whose checksum field is left at 0.
AckPkt_unstamped(packet) == Pkt(packet.seqnum, packet.seqnum, 0, packet.payload)

\* An ack that carries the number the receiver expects next instead of the
\* number of the packet it answers.
AckPkt_next_expected(packet) ==
    LET ack == Pkt(next_frame_rec, next_frame_rec, 0, packet.payload)
    IN  [ack EXCEPT !.checksum = calc_checksum(ack)]

\* ack = Pkt(packet.seqnum, packet.seqnum, 0, packet.payload) with its checksum
AckPkt(packet) ==
    LET ack == Pkt(packet.seqnum, packet.seqnum, 0, packet.payload)
    IN  [ack EXCEPT !.checksum = calc_checksum(ack)]

\* A sentinel without the special case for sequence number 0.
fraud_ack_num_minus_one(packet) == packet.seqnum - 1

\* fraud_ack_num
fraud_ack_num(packet) == IF packet.seqnum = 0 THEN 1 ELSE packet.seqnum - 1

\* nack = Pkt(packet.seqnum, fraud_ack_num, 0, packet.payload) with its checksum
NackPkt(packet) ==
    LET nack == Pkt(packet.seqnum, fraud_ack_num(packet), 0, packet.payload)
    IN  [nack EXCEPT !.checksum = calc_checksum(nack)]

\* A receiver that delivers every valid packet, whatever its sequence number.
RcvHandle_no_seq_check(packet) ==
    \E valid \in {Rcv_check_rec(packet)} :
        /\ Len(chanRS) < MaxChan
        /\ IF valid
           THEN /\ delivered' = Append(delivered, packet.payload)
                /\ deliveredSeq' = Append(deliveredSeq, packet.seqnum)
                /\ last_frame_rec' = packet.seqnum
                /\ up' = <<packet.payload>>
           ELSE /\ UNCHANGED <<delivered, deliveredSeq, last_frame_rec>>
                /\ up' = <<>>
        /\ \E reply \in {IF valid THEN AckPkt(packet) ELSE NackPkt(packet)} :
              /\ chanRS' = Append(chanRS, reply)
              /\ out' = <<reply>>
        /\ op' = "rrecv"
        /\ inp' = packet
        /\ UNCHANGED <<sndVars, timer, crashed, appVars, lossBudget, confVars, ckVars>>

\* recv(packet) of RcvTransport
RcvHandle(packet) ==
    \E valid \in {Rcv_check_rec(packet)} :
        /\ Len(chanRS) < MaxChan
        /\ IF valid /\ packet.seqnum = next_frame_rec
           THEN /\ delivered' = Append(delivered, packet.payload)
                /\ deliveredSeq' = Append(deliveredSeq, packet.seqnum)
                /\ last_frame_rec' = next_frame_rec
                /\ up' = <<packet.payload>>
           ELSE /\ UNCHANGED <<delivered, deliveredSeq, last_frame_rec>>
                /\ up' = <<>>
        /\ \E reply \in {IF valid THEN AckPkt(packet) ELSE NackPkt(packet)} :
              /\ chanRS' = Append(chanRS, reply)
              /\ out' = <<reply>>
        /\ op' = "rrecv"
        /\ inp' = packet
        /\ UNCHANGED <<sndVars, timer, crashed, appVars, lossBudget, confVars, ckVars>>

\* ------------------------------------------------------ channel and timer
\* One bit of a byte turned over.
FlipBit(n, k) ==
    IF (n \div (2 ^ k)) % 2 = 1 THEN n - 2 ^ k ELSE n + 2 ^ k

\* Payload positions (1-based) the channel corrupts in the protocol runs: the
\* first byte and the last one.
CorruptPos == {1, MSG_SIZE}

\* What the channel can turn a packet into: a header field replaced by a value
\* the entities never use, the sequence number replaced by the next one in
\* use, or one payload byte changed.
Corruptions(p) ==
    {[p EXCEPT !.seqnum = v] : v \in {(p.seqnum + 1) % seqnum_limit, seqnum_limit} \ {p.seqnum}}
    \cup {[p EXCEPT !.acknum = seqnum_limit]}
    \cup {[p EXCEPT !.payload[i] = FlipBit(p.payload[i], 0)] : i \in CorruptPos}

\* The oldest packet in flight arrives intact at RcvTransport.recv.
RcvRecv ==
    /\ ~crashed
    /\ chanSR # <<>>
    /\ chanSR' = Tail(chanSR)
    /\ RcvHandle(Head(chanSR))
    /\ UNCHANGED <<corrupted, undetected>>

\* The oldest packet in flight arrives corrupted at RcvTransport.recv.
RcvRecvCorrupt ==
    /\ ~crashed
    /\ chanSR # <<>>
    /\ chanSR' = Tail(chanSR)
    /\ \E q \in Corruptions(Head(chanSR)) :
          /\ RcvHandle(q)
          /\ undetected' = (undetected \/ calc_checksum(q) = q.checksum)
    /\ corrupted < MaxCorrupt
    /\ corrupted' = corrupted + 1

\* The oldest returning packet arrives intact at SndTransport.recv.
SndRecv ==
    /\ ~crashed
    /\ chanRS # <<>>
    /\ chanRS' = Tail(chanRS)
    /\ SndHandle(Head(chanRS))
    /\ UNCHANGED <<corrupted, undetected>>

\* The oldest returning packet arrives corrupted at SndTransport.recv.
SndRecvCorrupt ==
    /\ ~crashed
    /\ chanRS # <<>>
    /\ chanRS' = Tail(chanRS)
    /\ \E q \in Corruptions(Head(chanRS)) :
          /\ SndHandle(q)
          /\ undetected' = (undetected \/ calc_checksum(q) = q.checksum)
    /\ corrupted < MaxCorrupt
    /\ corrupted' = corrupted + 1

\* The channel drops the oldest packet in flight.
LoseSR ==
    /\ ~crashed
    /\ chanSR # <<>>
    /\ lossBudget # 0
    /\ chanSR' = Tail(chanSR)
    /\ lossBudget' = IF lossBudget > 0 THEN lossBudget - 1 ELSE lossBudget
    /\ op' = "lose"
    /\ inp' = NoPkt
    /\ out' = <<>>
    /\ up' = <<>>
    /\ UNCHANGED <<sndVars, rcvVars, timer, chanRS, crashed, appVars, upVars, corrupted,
                   undetected, confVars, ckVars>>

LoseRS ==
    /\ ~crashed
    /\ chanRS # <<>>
    /\ lossBudget # 0
    /\ chanRS' = Tail(chanRS)
    /\ lossBudget' = IF lossBudget > 0 THEN lossBudget - 1 ELSE lossBudget
    /\ op' = "lose"
    /\ inp' = NoPkt
    /\ out' = <<>>
    /\ up' = <<>>
    /\ UNCHANGED <<sndVars, rcvVars, timer, chanSR, crashed, appVars, upVars, corrupted,
                   undetected, confVars, ckVars>>

\* ------------------------------------------------------------ protocol run
\* SndTransport.__init__ and RcvTransport.__init__
InitEntities ==
    /\ last_ack_rec = -1
    /\ next_frame_index = 0
    /\ unackPkt = <<>>
    /\ last_frame_rec = -1

InitRun ==
    /\ InitEntities
    /\ timer = FALSE
    /\ chanSR = <<>>
    /\ chanRS = <<>>
    /\ crashed = FALSE
    /\ op = "init"
    /\ inp = NoPkt
    /\ out = <<>>
    /\ up = <<>>
    /\ nsend = 0
    /\ nreject = 0
    /\ accepted = <<>>
    /\ rejected = {}
    /\ firstTx = {}
    /\ delivered = <<>>
    /\ deliveredSeq = <<>>
    /\ corrupted = 0
    /\ undetected = FALSE

\* Any configuration, a channel free to drop and corrupt.
Init ==
    /\ variant \in {1, 2}
    /\ \E c \in Configs : seqnum_limit = c[1] /\ window_size = c[2]
    /\ InitRun
    /\ lossBudget = -1
    /\ ckPkt = NoPkt
    /\ ckPhase = "off"

Next ==
    \/ Send
    \/ SndRecv
    \/ SndRecvCorrupt
    \/ TimerInterrupt
    \/ RcvRecv
    \/ RcvRecvCorrupt
    \/ LoseSR
    \/ LoseRS

Spec == Init /\ [][Next]_vars

\* --------------------------------------------------- a channel losing once
\* A valid configuration, a channel that drops one packet and delivers all the
\* others intact.
InitOneLoss ==
    /\ variant \in {1, 2}
    /\ \E c \in Configs :
          /\ c[1] >= 2 * c[2]
          /\ seqnum_limit = c[1]
          /\ window_size = c[2]
    /\ InitRun
    /\ lossBudget = 1
    /\ ckPkt = NoPkt
    /\ ckPhase = "off"

NextOneLoss ==
    \/ Send
    \/ SndRecv
    \/ TimerInterrupt
    \/ RcvRecv
    \/ LoseSR
    \/ LoseRS

OneLossSpec == InitOneLoss /\ [][NextOneLoss]_vars

\* ------------------------------------------------------ racing timer expiry
\* The run over the channel losing once, with a driver whose timer expiry can
\* reach the sender after the timer was stopped.
NextStale ==
    \/ NextOneLoss
    \/ StaleTimer

StaleSpec == InitOneLoss /\ [][NextStale]_vars

\* ----------------------------------------------------------- checksum study
\* Header field values and payloads calc_checksum is applied to.
CkFields == {0, 1, 127, 255}
CkBytes == {0, 255}
CkPayloads ==
    [1..2 -> CkBytes] \cup [1..4 -> CkBytes]

InitChk ==
    /\ variant = 1
    /\ seqnum_limit = 2
    /\ window_size = 1
    /\ InitRun
    /\ lossBudget = 0
    /\ ckPhase = "new"
    /\ \E s \in CkFields, a \in CkFields, pl \in CkPayloads : ckPkt = Pkt(s, a, 0, pl)

\* pkt.checksum = calc_checksum(pkt)
CkStamp ==
    /\ ckPhase = "new"
    /\ ckPkt' = [ckPkt EXCEPT !.checksum = calc_checksum(ckPkt)]
    /\ ckPhase' = "stamped"
    /\ UNCHANGED <<confVars, protoVars>>

\* One bit of the sequence number changes in the channel.
CkFlipSeq ==
    /\ ckPhase = "stamped"
    /\ \E k \in 0..7 : ckPkt' = [ckPkt EXCEPT !.seqnum = FlipBit(ckPkt.seqnum, k)]
    /\ ckPhase' = "flipped"
    /\ UNCHANGED <<confVars, protoVars>>

\* One bit of the acknowledgment number changes in the channel.
CkFlipAck ==
    /\ ckPhase = "stamped"
    /\ \E k \in 0..7 : ckPkt' = [ckPkt EXCEPT !.acknum = FlipBit(ckPkt.acknum, k)]
    /\ ckPhase' = "flipped"
    /\ UNCHANGED <<confVars, protoVars>>

\* One bit of one payload byte changes in the channel.
CkFlipPayload ==
    /\ ckPhase = "stamped"
    /\ \E i \in 1..Len(ckPkt.payload), k \in 0..7 :
          ckPkt' = [ckPkt EXCEPT !.payload[i] = FlipBit(ckPkt.payload[i], k)]
    /\ ckPhase' = "flipped"
    /\ UNCHANGED <<confVars, protoVars>>

NextChk ==
    \/ CkStamp
    \/ CkFlipSeq
    \/ CkFlipAck
    \/ CkFlipPayload

ChkSpec == InitChk /\ [][NextChk]_vars

\* ------------------------------------------------------------- properties
IsPrefix(s, t) ==
    /\ Len(s) <= Len(t)
    /\ \A i \in 1..Len(s) : s[i] = t[i]

ValidConfig == seqnum_limit >= 2 * window_size

\* C1: with seqnum_limit >= 2 * window_size and every corruption caught by the
\* checksum, the payloads RcvTransport has delivered upward are a prefix of
\* the messages send has accepted: none twice, none skipped, none out of order.
C1_DeliveredPrefix ==
    (ValidConfig /\ ~undetected) => IsPrefix(delivered, accepted)

\* C1 witness: after a corrupted arrival was recovered from, more messages than
\* there are sequence numbers have been delivered, all of them in order.
C1_Witness ==
    /\ ValidConfig
    /\ window_size > 1
    /\ ~undetected
    /\ corrupted > 0
    /\ Len(delivered) > seqnum_limit
    /\ delivered = accepted

\* C2: over a channel that drops one packet and delivers the others intact,
\* every accepted message is eventually delivered and acknowledged without
\* further send calls; so whenever nothing is in flight and no timer is
\* pending, nothing is outstanding and everything accepted was delivered.
C2_NothingLeftBehind ==
    (chanSR = <<>> /\ chanRS = <<>> /\ ~timer /\ ~crashed)
        => (unackPkt = <<>> /\ delivered = accepted)

\* C3: the unacked buffer never holds more than window_size packets.
C3_WindowBound == Len(unackPkt) <= window_size

\* C3 witness: a send call was rejected with the window full.
C3_Witness == op = "reject" /\ Len(unackPkt) = window_size /\ window_size = 2

\* C4: a send call made with len(unacked) == window_size changes neither the
\* sender's state nor the channel nor the timer and passes nothing to layer 3,
\* and no rejected message is ever buffered or transmitted.
C4_RejectedSendNoEffect ==
    /\ [][(nsend' = nsend + 1 /\ Len(unackPkt) = window_size)
            => (/\ UNCHANGED <<sndVars, chanSR, chanRS, timer>>
                /\ out' = <<>>
                /\ op' = "reject")]_vars
    /\ [](\A i \in 1..Len(unackPkt) : unackPkt[i].payload \notin rejected)
    /\ [](\A i \in 1..Len(chanSR) : chanSR[i].payload \notin rejected)

\* C4 witness: after a rejected send, a later send was accepted and its packet
\* is in flight.
C4_Witness ==
    /\ nreject > 0
    /\ op = "send"
    /\ Len(accepted) > window_size
    /\ chanSR # <<>>

\* C5: the sequence numbers of the payloads RcvTransport delivers are 0, 1, 2,
\* ... modulo seqnum_limit, and an arriving packet is delivered iff its
\* checksum verifies and its seqnum is (last_frame_rec + 1) mod seqnum_limit.
C5_InOrderDelivery ==
    /\ [](\A i \in 1..Len(deliveredSeq) : deliveredSeq[i] = (i - 1) % seqnum_limit)
    /\ [][op' = "rrecv" =>
            ((Len(delivered') = Len(delivered) + 1)
                <=> (/\ calc_checksum(inp') = inp'.checksum
                     /\ inp'.seqnum = (last_frame_rec + 1) % seqnum_limit))]_vars
    /\ [][op' # "rrecv" => delivered' = delivered]_vars

\* C5 witness: the receiver has delivered past the wrap of the sequence
\* numbers and has just turned down a valid packet it did not expect.
C5_Witness ==
    /\ op = "rrecv"
    /\ up = <<>>
    /\ calc_checksum(inp) = inp.checksum
    /\ Len(deliveredSeq) > seqnum_limit

\* C6: every packet an entity passes to layer 3 has its seqnum and acknum in
\* 0 .. seqnum_limit - 1.
C6_FieldRange ==
    \A i \in 1..Len(out) :
        /\ out[i].seqnum \in 0..(seqnum_limit - 1)
        /\ out[i].acknum \in 0..(seqnum_limit - 1)

\* C7: every packet the sender retransmits, from timer_interrupt or from recv,
\* equals in all four fields a packet that send itself passed to layer 3.
C7_IdempotentRetransmission ==
    op \in {"timer", "srecv"} => \A i \in 1..Len(out) : out[i] \in firstTx

\* C7 witness: recv retransmitted a full window of two packets.
C7_Witness == op = "srecv" /\ Len(out) = 2 /\ out = unackPkt

\* C8: a sender constructed with seqnum_limit < 2 * window_size never runs a
\* handler.
C8_ConfigRejected == ~ValidConfig => op = "init"

\* One's-complement addition of 16-bit words, with end-around carry.
OnesAdd(a, b) == IF a + b > 65535 THEN a + b - 65535 ELSE a + b

\* The one's-complement sum of w and the bytes of payload at the 1-based
\* positions i, i + 2, ...
RECURSIVE OnesSum(_, _, _)
OnesSum(w, payload, i) ==
    IF i > Len(payload) THEN w ELSE OnesSum(OnesAdd(w, payload[i]), payload, i + 2)

\* C9: calc_checksum returns a value in 0..65535, the 16-bit complement of the
\* one's-complement sum of (seqnum << 8 | acknum) and the first byte of each
\* two-byte pair of the payload.
C9_ChecksumReference ==
    ckPhase = "stamped" =>
        /\ ckPkt.checksum \in 0..65535
        /\ ckPkt.checksum =
               65535 - OnesSum(ckPkt.seqnum * 256 + ckPkt.acknum, ckPkt.payload, 1)

\* C10: a packet stamped with calc_checksum verifies, and stops verifying once
\* one bit of its seqnum, its acknum or any payload byte has changed.
C10_RoundTripAndDetection ==
    /\ ckPhase = "stamped" => Rcv_check_rec(ckPkt)
    /\ ckPhase = "flipped" => ~Rcv_check_rec(ckPkt)

\* The sender's handlers: send (accepted or rejected), recv, timer_interrupt.
SndOps == {"send", "reject", "srecv", "timer"}

\* C11: at the end of every SndTransport handler of a sender constructed with
\* seqnum_limit >= 2 * window_size, a non-empty unacked buffer comes with an
\* armed retransmission timer.
C11_TimerArmed ==
    (ValidConfig /\ op \in SndOps /\ ~crashed /\ unackPkt # <<>>) => timer

\* C12: timer_interrupt called with an empty unacked buffer passes nothing to
\* layer 3, does not arm the timer and changes no sender state.
C12_StaleTimerNoOp ==
    [][(op' = "timer" /\ unackPkt = <<>>)
          => (out' = <<>> /\ ~timer' /\ UNCHANGED sndVars)]_vars

\* C13: recv of a valid ack (acknum == seqnum, checksum verifies) whose
\* sequence number is that of an already-acknowledged packet and of no packet
\* in the unacked buffer passes nothing to layer 3 and leaves last_ack_rec,
\* next_frame_index and the unacked buffer as they were.
C13_DuplicateAckIgnored ==
    [][(/\ ValidConfig
        /\ op' = "srecv"
        /\ Snd_check_rec(inp')
        /\ last_ack_rec >= 0
        /\ inp'.seqnum \in 0..(seqnum_limit - 1)
        /\ \A i \in 1..Len(unackPkt) : unackPkt[i].seqnum # inp'.seqnum)
          => (out' = <<>> /\ UNCHANGED sndVars)]_vars

\* C14: in part1, recv of a valid ack whose sequence number is that of a
\* packet in the unacked buffer behind the oldest one retransmits the whole
\* buffer in order and arms the timer.
C14_AheadAckRetransmits ==
    [][(/\ ValidConfig
        /\ variant = 1
        /\ op' = "srecv"
        /\ Snd_check_rec(inp')
        /\ \E i \in 2..Len(unackPkt) : unackPkt[i].seqnum = inp'.seqnum)
          => (out' = unackPkt /\ timer' /\ unackPkt' = unackPkt)]_vars

\* C15: recv of a packet that fails the checksum or has acknum # seqnum leaves
\* the timer stopped when nothing is outstanding, and otherwise passes the
\* unacked buffer to layer 3 once, oldest first, and arms the timer; it leaves
\* last_ack_rec, next_frame_index and the unacked buffer as they were and
\* delivers nothing upward.
C15_NegativeSignal ==
    [][(op' = "srecv" /\ ~Snd_check_rec(inp'))
          => (/\ out' = unackPkt
              /\ chanSR' = chanSR \o unackPkt
              /\ timer' = (unackPkt # <<>>)
              /\ UNCHANGED sndVars
              /\ up' = <<>>)]_vars

\* C15 witness: a negative acknowledgment made recv retransmit a window of two
\* packets and arm the timer.
C15_Witness ==
    /\ op = "srecv"
    /\ inp.acknum # inp.seqnum
    /\ Len(out) = 2
    /\ out = unackPkt
    /\ timer

\* C16: recv of a valid ack with acknum == seqnum == (last_ack_rec + 1) mod
\* seqnum_limit sets last_ack_rec to that number, removes the head of the
\* unacked buffer and nothing else, delivers one message upward, passes
\* nothing to layer 3 and leaves next_frame_index alone; no other event changes
\* last_ack_rec or shortens the unacked buffer.
C16_InOrderAck ==
    /\ [][(/\ op' = "srecv"
            /\ Snd_check_rec(inp')
            /\ inp'.seqnum = (last_ack_rec + 1) % seqnum_limit)
              => (/\ last_ack_rec' = inp'.seqnum
                  /\ unackPkt # <<>>
                  /\ unackPkt' = Tail(unackPkt)
                  /\ Len(up') = 1
                  /\ next_frame_index' = next_frame_index
                  /\ out' = <<>>
                  /\ chanSR' = chanSR)]_vars
    /\ [][(last_ack_rec' # last_ack_rec \/ Len(unackPkt') < Len(unackPkt))
              => (/\ op' = "srecv"
                  /\ Snd_check_rec(inp')
                  /\ inp'.seqnum = (last_ack_rec + 1) % seqnum_limit)]_vars

\* C16 witness: after the sequence numbers wrapped, recv accepted the ack of
\* packet 0 and one packet is still outstanding.
C16_Witness ==
    /\ op = "srecv"
    /\ Len(up) = 1
    /\ last_ack_rec = 0
    /\ Len(accepted) > seqnum_limit
    /\ Len(unackPkt) = 1

\* C17: a send call made with len(unacked) < window_size passes one packet to
\* layer 3, with seqnum == acknum == the old next_frame_index, the message's
\* data as payload and a checksum that verifies; appends that packet to the
\* unacked buffer, advances next_frame_index by one modulo seqnum_limit,
\* leaves last_ack_rec alone and arms the timer.
C17_AcceptedSend ==
    [][(nsend' = nsend + 1 /\ Len(unackPkt) < window_size)
          => (/\ Len(out') = 1
              /\ out'[1].seqnum = next_frame_index
              /\ out'[1].acknum = next_frame_index
              /\ out'[1].payload = MsgData(nsend')
              /\ Rcv_check_rec(out'[1])
              /\ chanSR' = Append(chanSR, out'[1])
              /\ unackPkt' = Append(unackPkt, out'[1])
              /\ next_frame_index' = (next_frame_index + 1) % seqnum_limit
              /\ last_ack_rec' = last_ack_rec
              /\ timer')]_vars

\* C17 witness: an accepted send used the last sequence number, wrapped
\* next_frame_index to 0 and filled a window of two.
C17_Witness ==
    /\ op = "send"
    /\ next_frame_index = 0
    /\ out[1].seqnum = seqnum_limit - 1
    /\ Len(unackPkt) = 2

\* C18: timer_interrupt with a non-empty unacked buffer passes the buffer to
\* layer 3 once, oldest first, arms the timer and leaves the unacked buffer,
\* last_ack_rec and next_frame_index as they were.
C18_TimeoutRetransmission ==
    [][(op' = "timer" /\ unackPkt # <<>>)
          => (/\ out' = unackPkt
              /\ chanSR' = chanSR \o unackPkt
              /\ timer'
              /\ UNCHANGED sndVars)]_vars

\* C18 witness: the timer went off with two packets outstanding.
C18_Witness ==
    /\ op = "timer"
    /\ Len(out) = 2
    /\ out = unackPkt
    /\ timer

\* C19: for every packet RcvTransport.recv finds valid, delivered or not, it
\* passes one packet to layer 3 whose seqnum and acknum are the arriving
\* seqnum and whose checksum verifies, so SndTransport.check_rec accepts it.
C19_ReceiverAcks ==
    [][(op' = "rrecv" /\ Rcv_check_rec(inp'))
          => (/\ Len(out') = 1
              /\ out'[1].seqnum = inp'.seqnum
              /\ out'[1].acknum = inp'.seqnum
              /\ out'[1].checksum = calc_checksum(out'[1])
              /\ Snd_check_rec(out'[1])
              /\ chanRS' = Append(chanRS, out'[1]))]_vars

\* C19 witness: a valid packet the receiver was not waiting for was
\* acknowledged without being delivered, after the numbers wrapped.
C19_Witness ==
    /\ op = "rrecv"
    /\ Rcv_check_rec(inp)
    /\ up = <<>>
    /\ Snd_check_rec(out[1])
    /\ out[1].seqnum = last_frame_rec
    /\ Len(delivered) > seqnum_limit

\* C20: for every packet RcvTransport.recv finds invalid, it delivers nothing,
\* leaves last_frame_rec alone and passes one packet to layer 3 whose seqnum is
\* the arriving seqnum and whose acknum is seqnum - 1, or 1 for seqnum 0, so
\* SndTransport.check_rec rejects it.
C20_ReceiverNack ==
    [][(op' = "rrecv" /\ ~Rcv_check_rec(inp'))
          => (/\ up' = <<>>
              /\ delivered' = delivered
              /\ last_frame_rec' = last_frame_rec
              /\ Len(out') = 1
              /\ out'[1].seqnum = inp'.seqnum
              /\ out'[1].acknum = (IF inp'.seqnum = 0 THEN 1 ELSE inp'.seqnum - 1)
              /\ out'[1].acknum # out'[1].seqnum
              /\ ~Snd_check_rec(out'[1])
              /\ chanRS' = Append(chanRS, out'[1]))]_vars

\* C20 witness: a corrupted packet with sequence number 0 that the receiver
\* was waiting for was answered with acknum 1 and not delivered.
C20_Witness ==
    /\ op = "rrecv"
    /\ ~Rcv_check_rec(inp)
    /\ inp.seqnum = 0
    /\ (last_frame_rec + 1) % seqnum_limit = 0
    /\ out[1].acknum = 1
    /\ up = <<>>

\* C21: when RcvTransport.recv handles the same valid packet twice in
\* succession (seqnum_limit >= 2), the second call delivers nothing, so the
\* two calls deliver at most one payload; last_frame_rec stays what the first
\* call left it, and the second call passes the same ack to layer 3.
C21_ReceiverIdempotent ==
    [][(/\ seqnum_limit >= 2
        /\ op = "rrecv"
        /\ op' = "rrecv"
        /\ inp' = inp
        /\ Rcv_check_rec(inp))
          => (/\ up' = <<>>
              /\ Len(up) + Len(up') <= 1
              /\ delivered' = delivered
              /\ last_frame_rec' = last_frame_rec
              /\ out' = out
              /\ Snd_check_rec(out'[1]))]_vars

\* C21 witness: the receiver delivered a packet and then handled a second
\* copy of it, which it acknowledged again without delivering.
C21_Witness ==
    /\ op = "rrecv"
    /\ up = <<>>
    /\ Rcv_check_rec(inp)
    /\ inp.seqnum = last_frame_rec
    /\ delivered # <<>>
    /\ delivered[Len(delivered)] = inp.payload
    /\ chanRS = <<out[1], out[1]>>

\* C22: in every state of the sender, next_frame_index is in 0 ..
\* seqnum_limit - 1 and last_ack_rec in -1 .. seqnum_limit - 1, the packets of
\* the unacked buffer carry consecutive sequence numbers modulo seqnum_limit
\* starting at (last_ack_rec + 1) mod seqnum_limit, and next_frame_index is
\* (last_ack_rec + 1 + len(unacked)) mod seqnum_limit.
C22_SenderBookkeeping ==
    /\ next_frame_index \in 0..(seqnum_limit - 1)
    /\ last_ack_rec \in -1..(seqnum_limit - 1)
    /\ \A i \in 1..Len(unackPkt) :
          unackPkt[i].seqnum = (last_ack_rec + i) % seqnum_limit
    /\ next_frame_index = (last_ack_rec + 1 + Len(unackPkt)) % seqnum_limit

\* C22 witness: a window of two spans the wrap of the sequence numbers, after
\* an ack was accepted.
C22_Witness ==
    /\ Len(unackPkt) = 2
    /\ unackPkt[1].seqnum = seqnum_limit - 1
    /\ unackPkt[2].seqnum = 0
    /\ last_ack_rec = seqnum_limit - 2
    /\ next_frame_index = 1

\* C23: with seqnum_limit >= 2 * window_size, SndTransport.recv never finds a
\* valid ack carrying the next expected number while the unacked buffer is
\* empty, so unackPkt.pop(0) never raises.
C23_NoPopFromEmpty ==
    /\ [](ValidConfig => ~crashed)
    /\ [][(/\ ValidConfig
            /\ op' = "srecv"
            /\ Snd_check_rec(inp')
            /\ inp'.seqnum = next_lar)
              => (unackPkt # <<>> /\ unackPkt' = Tail(unackPkt))]_vars

\* C23 witness: after the sequence numbers wrapped, a valid ack left over
\* from a retransmission reached the sender while nothing was outstanding and
\* was passed over.
C23_Witness ==
    /\ ValidConfig
    /\ op = "srecv"
    /\ Snd_check_rec(inp)
    /\ unackPkt = <<>>
    /\ up = <<>>
    /\ ~crashed
    /\ inp.seqnum = last_ack_rec
    /\ Len(accepted) > seqnum_limit

\* The number of packets the sender has removed from the unacked buffer: every
\* accepted send adds one packet to it.
Acked == Len(accepted) - Len(unackPkt)

\* C24: with seqnum_limit >= 2 * window_size, acknowledged <= delivered <=
\* accepted in every state, the receiver is at most window_size messages ahead
\* of the acknowledged count, and a packet leaves the unacked buffer only
\* after the receiver delivered its message.
C24_AckImpliesDelivery ==
    /\ [](ValidConfig =>
            (/\ Acked <= Len(delivered)
             /\ Len(delivered) <= Len(accepted)
             /\ Len(delivered) - Acked <= window_size))
    /\ [][(ValidConfig /\ Len(unackPkt') < Len(unackPkt))
              => (/\ Len(delivered) > Acked
                  /\ (~undetected => delivered[Acked + 1] = Head(unackPkt).payload))]_vars

\* C24 witness: with a window of two, the sender accepted the ack of a message
\* while the receiver had already delivered the one after it, past the wrap
\* of the sequence numbers.
C24_Witness ==
    /\ ValidConfig
    /\ window_size = 2
    /\ op = "srecv"
    /\ Len(up) = 1
    /\ Len(delivered) = Acked + 1
    /\ Len(delivered) > seqnum_limit

====
